---- MODULE Spec2Model ----
(***************************************************************************)
(* SleekGizmoLite (src/SleekGizmoLite.js): a translation gizmo.  One class *)
(* holds the attached object, the gizmo group with its three handles, the  *)
(* drag state and the drag buffers; six DOM listeners drive it.            *)
(*                                                                         *)
(* Vectors are integer triples.  A quaternion is an integer quadruple      *)
(* <<x, y, z, w>> standing for the unit quaternion q / |q|, so that the    *)
(* rotations by 90 and 180 degrees are exact.  The camera is a perspective *)
(* camera with a 90 degree field of view looking along a coordinate axis,  *)
(* and the window is two pixels wide and high, so that the pointer         *)
(* positions 0, 1, 2 give the normalised device coordinates -1, 0, 1.      *)
(* Every handler sets this.mouse and raycaster.ray from the pointer and the *)
(* camera before it reads them, so they are computed within the handler    *)
(* and are no variables.                                                   *)
(***************************************************************************)
EXTENDS Integers, Sequences, FiniteSets, TLC

VARIABLES
    objects,            \* the scene's objects: position, quaternion, scale
    camera,             \* this.camera: position, dir (world direction), up
    attachedObject,     \* this.attachedObject: an object or Null
    gizmoGroup,         \* this.gizmoGroup: visible, position, quaternion, scale, children
    inScene,            \* the scene holds the gizmo group
    listeners,          \* the event types a listener is registered for
    isDragging,         \* this.isDragging
    activeAxis,         \* this.activeAxis: "x", "y", "z" or Null
    dragPlane,          \* this._dragPlane: normal, constant
    startIntersection,  \* this._startIntersection
    startPosition,      \* this._startPosition
    callbacks,          \* this.callbacks: per event, the registered callbacks
    error,              \* what the last step raised: "none" or "TypeError"
    triggered,          \* the event the last step passed to _trigger, or "none"
    fired,              \* the callback invocations of the last step, in order
    cbOpen,             \* an onDragStart was triggered and no onDragEnd since
    dragObj             \* the object that was attached when the last drag started

vars == <<objects, camera, attachedObject, gizmoGroup, inScene, listeners,
          isDragging, activeAxis, dragPlane, startIntersection, startPosition,
          callbacks, error, triggered, fired, cbOpen, dragObj>>

\* the gizmo's own fields
gizmoVars == <<attachedObject, gizmoGroup, inScene, listeners, isDragging, activeAxis,
               dragPlane, startIntersection, startPosition, callbacks>>

----------------------------------------------------------------------------
\* Bounds of the model

\* object coordinates stay within -MaxCoord .. MaxCoord
MaxCoord == 2
\* at most this many callbacks are registered in all
MaxCallbacks == 1

----------------------------------------------------------------------------
\* Values

Null == "null"
Axes == {"x", "y", "z"}
Objects == {"A", "B"}

\* config.colors (the defaults)
ColorX == 16722527
ColorY == 58998
ColorZ == 2718207
ColorActive == 16777215
\* the centre sphere's material colour
ColorSphere == 16777215

\* window.innerWidth, window.innerHeight
Window == [innerWidth |-> 2, innerHeight |-> 2]
PointerXs == 0 .. Window.innerWidth
\* the pointer stays on the middle row of the window
PointerYs == {Window.innerHeight \div 2}

DownTypes == {"mousedown", "touchstart"}
MoveTypes == {"mousemove", "touchmove"}
UpTypes == {"mouseup", "touchend"}

\* the names the host passes to on(): one that on() accepts, one it does not
EventNames == {"dragEnd", "hover"}
CallbackIds == {"cb"}

Zero3 == <<0, 0, 0>>
QIdentity == <<0, 0, 0, 1>>
\* a quarter turn about z
QuarterTurnZ == <<0, 0, 1, 1>>

\* the poses the host application gives the camera: looking at the scene, and
\* turned away from it
CameraPoses ==
    { [position |-> <<0, 0, 2>>, dir |-> <<0, 0, -1>>, up |-> <<0, 1, 0>>],
      [position |-> <<0, 0, 2>>, dir |-> <<0, 0, 1>>, up |-> <<0, 1, 0>>] }

----------------------------------------------------------------------------
\* Vector algebra (THREE.Vector3, THREE.Quaternion, THREE.Plane, THREE.Ray)

Add(a, b) == <<a[1] + b[1], a[2] + b[2], a[3] + b[3]>>
Sub(a, b) == <<a[1] - b[1], a[2] - b[2], a[3] - b[3]>>
Dot(a, b) == a[1] * b[1] + a[2] * b[2] + a[3] * b[3]
MultiplyScalar(a, s) == <<a[1] * s, a[2] * s, a[3] * s>>
Cross(a, b) == <<a[2] * b[3] - a[3] * b[2], a[3] * b[1] - a[1] * b[3], a[1] * b[2] - a[2] * b[1]>>

\* exact division, rounding towards zero as a float division of integers that
\* divide would
Quot(a, b) ==
    IF b = 0 THEN 0
    ELSE IF (a >= 0) = (b > 0) THEN (IF a >= 0 THEN a ELSE -a) \div (IF b > 0 THEN b ELSE -b)
    ELSE -((IF a >= 0 THEN a ELSE -a) \div (IF b > 0 THEN b ELSE -b))

\* Vector3.length for the vectors whose length is an integer
Length(v) == CHOOSE n \in 0 .. (Dot(v, v) + 1) : n * n = Dot(v, v)
\* Vector3.normalize: divideScalar(length() || 1)
Normalize(v) ==
    LET l == IF Length(v) = 0 THEN 1 ELSE Length(v)
    IN  <<Quot(v[1], l), Quot(v[2], l), Quot(v[3], l)>>

DistanceToSquared(a, b) == Dot(Sub(a, b), Sub(a, b))

\* Quaternion.invert: the conjugate
Invert(q) == <<-q[1], -q[2], -q[3], q[4]>>

\* Vector3.applyQuaternion; the division by |q|^2 makes the integer
\* quadruple act as the unit quaternion it stands for
ApplyQuaternion(v, q) ==
    LET n2 == q[1] * q[1] + q[2] * q[2] + q[3] * q[3] + q[4] * q[4]
        ix == q[4] * v[1] + q[2] * v[3] - q[3] * v[2]
        iy == q[4] * v[2] + q[3] * v[1] - q[1] * v[3]
        iz == q[4] * v[3] + q[1] * v[2] - q[2] * v[1]
        iw == 0 - q[1] * v[1] - q[2] * v[2] - q[3] * v[3]
    IN  << Quot(ix * q[4] + iw * (-q[1]) + iy * (-q[3]) - iz * (-q[2]), n2),
           Quot(iy * q[4] + iw * (-q[2]) + iz * (-q[1]) - ix * (-q[3]), n2),
           Quot(iz * q[4] + iw * (-q[3]) + ix * (-q[2]) - iy * (-q[1]), n2) >>

\* Plane.setFromNormalAndCoplanarPoint
SetFromNormalAndCoplanarPoint(normal, point) ==
    [normal |-> normal, constant |-> -Dot(point, normal)]

\* Plane.distanceToPoint
DistanceToPoint(plane, point) == Dot(plane.normal, point) + plane.constant

\* Ray.intersectPlane: hit is FALSE where the library returns null
IntersectPlane(r, plane) ==
    LET denominator == Dot(plane.normal, r.direction)
        t == Quot(-(Dot(r.origin, plane.normal) + plane.constant), denominator)
    IN  IF denominator = 0
        THEN IF DistanceToPoint(plane, r.origin) = 0
             THEN [hit |-> TRUE, point |-> r.origin]
             ELSE [hit |-> FALSE, point |-> Zero3]
        ELSE IF t >= 0 /\ (-(Dot(r.origin, plane.normal) + plane.constant)) * denominator >= 0
             THEN [hit |-> TRUE, point |-> Add(r.origin, MultiplyScalar(r.direction, t))]
             ELSE [hit |-> FALSE, point |-> Zero3]

\* the pointer position in normalised device coordinates
MouseOf(x, y) ==
    << Quot(x * 2, Window.innerWidth) - 1, 1 - Quot(y * 2, Window.innerHeight) >>

\* Raycaster.setFromCamera for the perspective camera
SetFromCamera(m, cam) ==
    [origin |-> cam.position,
     direction |-> Add(cam.dir, Add(MultiplyScalar(Cross(cam.dir, cam.up), m[1]),
                                    MultiplyScalar(cam.up, m[2])))]

InBox(p) == \A i \in 1 .. 3 : p[i] >= -MaxCoord /\ p[i] <= MaxCoord

----------------------------------------------------------------------------
\* The gizmo group's children.  A handle is the group _addHandle builds: its
\* colour is the colour of the material its stick and head share.  The centre
\* sphere has an empty userData: its type and axis are undefined and its
\* baseColor, undefined in the code, is the falsy 0 here.

Sphere ==
    [type |-> "undefined", axis |-> "undefined", baseColor |-> 0,
     color |-> ColorSphere, scaleY |-> 1]

AddHandle(children, axis, color) ==
    Append(children, [type |-> "handle", axis |-> axis, baseColor |-> color,
                      color |-> color, scaleY |-> 1])

RECURSIVE RemoveAll(_)
RemoveAll(children) ==
    IF Len(children) > 0 THEN RemoveAll(Tail(children)) ELSE children

\* _buildGizmo without the loop that removes the old children
BuildGizmo_NoClear(g) ==
    [g EXCEPT !.children =
        AddHandle(AddHandle(AddHandle(Append(g.children, Sphere), "x", ColorX),
                            "y", ColorY), "z", ColorZ)]

BuildGizmo(g) ==
    LET cleared == RemoveAll(g.children)
        withSphere == Append(cleared, Sphere)
    IN  [g EXCEPT !.children =
            AddHandle(AddHandle(AddHandle(withSphere, "x", ColorX), "y", ColorY), "z", ColorZ)]

ColorRecursive(obj, col) == [obj EXCEPT !.color = col]

HighlightAxis(children, axis) ==
    [i \in 1 .. Len(children) |->
        IF children[i].axis = axis THEN ColorRecursive(children[i], ColorActive)
        ELSE children[i]]

ResetColors(children) ==
    [i \in 1 .. Len(children) |->
        IF children[i].baseColor # 0 THEN ColorRecursive(children[i], children[i].baseColor)
        ELSE children[i]]

\* cam.a < -0.2, on integers
UpdateVisuals(g, cam) ==
    LET inv == Invert(g.quaternion)
        c == ApplyQuaternion(Sub(cam.position, g.position), inv)
        flip(axis) == \/ axis = "x" /\ 10 * c[1] < -2
                      \/ axis = "y" /\ 10 * c[2] < -2
                      \/ axis = "z" /\ 10 * c[3] < -2
    IN  [g EXCEPT !.children =
            [i \in 1 .. Len(g.children) |->
                IF g.children[i].type = "handle"
                THEN [g.children[i] EXCEPT !.scaleY = IF flip(g.children[i].axis) THEN -1 ELSE 1]
                ELSE g.children[i]]]

\* update() without the test of isDragging
Update_AlwaysVisuals(g, att, objs, cam, dragging) ==
    IF att = Null \/ ~g.visible THEN g
    ELSE UpdateVisuals([g EXCEPT !.position = objs[att].position,
                                 !.quaternion = objs[att].quaternion,
                                 !.scale = 81 * DistanceToSquared(cam.position,
                                                                  objs[att].position)],
                       cam)

\* update(): the scale dist * 0.09 is kept as (100 * scale)^2 = 81 * dist^2
Update(g, att, objs, cam, dragging) ==
    IF att = Null \/ ~g.visible THEN g
    ELSE LET g1 == [g EXCEPT !.position = objs[att].position,
                             !.quaternion = objs[att].quaternion,
                             !.scale = 81 * DistanceToSquared(cam.position, objs[att].position)]
         IN  IF ~dragging THEN UpdateVisuals(g1, cam) ELSE g1

\* the unit vector of an axis
UnitVector(axis) ==
    <<IF axis = "x" THEN 1 ELSE 0, IF axis = "y" THEN 1 ELSE 0, IF axis = "z" THEN 1 ELSE 0>>

\* _getAxisVector without applyQuaternion
GetAxisVector_World(axis, q) == UnitVector(axis)

GetAxisVector(axis, q) ==
    ApplyQuaternion(<<IF axis = "x" THEN 1 ELSE 0, IF axis = "y" THEN 1 ELSE 0,
                      IF axis = "z" THEN 1 ELSE 0>>, q)

\* the offset added to the object's position instead of to the drag-start position
MovedPosition_Accumulate(pos, startPos, startInt, current, axis, q) ==
    LET delta == Sub(current, startInt)
        axisVec == Normalize(GetAxisVector(axis, q))
        amount == Dot(delta, axisVec)
    IN  Add(pos, MultiplyScalar(axisVec, amount))

\* the position _handleMove computes when the ray meets the drag plane at
\* current; pos is the object's position before the event
MovedPosition(pos, startPos, startInt, current, axis, q) ==
    LET delta == Sub(current, startInt)
        axisVec == Normalize(GetAxisVector(axis, q))
        amount == Dot(delta, axisVec)
    IN  Add(startPos, MultiplyScalar(axisVec, amount))

\* _handleMove without the test of intersectPlane's result: the target vector
\* is left at the origin when the ray misses the plane
HandleMovePosition_Unchecked(pos, startPos, startInt, current, axis, q) ==
    MovedPosition(pos, startPos, startInt, current.point, axis, q)

\* the position after _handleMove's move logic, for the result current of
\* ray.intersectPlane
HandleMovePosition(pos, startPos, startInt, current, axis, q) ==
    IF current.hit THEN MovedPosition(pos, startPos, startInt, current.point, axis, q)
    ELSE pos

\* the new vector copied into the object's scale
MoveObject_Scale(obj, position) == [obj EXCEPT !.scale = position]

\* attachedObject.position.copy(...).add(...): the object with its new position
MoveObject(obj, position) == [obj EXCEPT !.position = position]

\* the listeners, as <<target, event type>>
InitEvents(ls) ==
    ls \cup { <<"el", "mousedown">>, <<"el", "touchstart">>,
              <<"window", "mousemove">>, <<"window", "touchmove">>,
              <<"window", "mouseup">>, <<"window", "touchend">> }

\* _removeEvents taking the mouseup listener off the element, not the window
RemoveEvents_WrongTarget(ls) ==
    (((((ls \ {<<"el", "mousedown">>}) \ {<<"el", "touchstart">>})
        \ {<<"window", "mousemove">>}) \ {<<"window", "touchmove">>})
        \ {<<"el", "mouseup">>}) \ {<<"window", "touchend">>}

RemoveEvents(ls) ==
    (((((ls \ {<<"el", "mousedown">>}) \ {<<"el", "touchstart">>})
        \ {<<"window", "mousemove">>}) \ {<<"window", "touchmove">>})
        \ {<<"window", "mouseup">>}) \ {<<"window", "touchend">>}

\* on(): 'on' + the name with its first letter in upper case
CallbackName(event) ==
    CASE event = "dragStart" -> "onDragStart"
      [] event = "dragEnd" -> "onDragEnd"
      [] event = "change" -> "onChange"
      [] OTHER -> "onHover"

\* _trigger: every callback registered for the event, once, in order
Trigger(cbs, event) == [i \in 1 .. Len(cbs[event]) |-> <<event, i>>]

\* raycaster.intersectObjects(gizmoGroup.children, true): the children the
\* first intersection may belong to, 0 for no intersection.  The ray can meet
\* the gizmo's meshes only if it passes through the gizmo's position in front
\* of its origin; which mesh it meets first is left open.
IntersectObjects(r, g) ==
    IF \E t \in 1 .. (2 * MaxCoord + 2) :
            Add(r.origin, MultiplyScalar(r.direction, t)) = g.position
    THEN 0 .. Len(g.children)
    ELSE {0}

\* the walk up the parents from the mesh hit to an object with userData.axis
HitAxis(g, hit) == IF hit = 0 THEN "undefined" ELSE g.children[hit].axis

----------------------------------------------------------------------------
\* What a step did

NumCallbacks == Len(callbacks.onDragStart) + Len(callbacks.onDragEnd) + Len(callbacks.onChange)

Observe(err, event) ==
    /\ error' = err
    /\ triggered' = event
    /\ fired' = IF event = "none" THEN <<>> ELSE Trigger(callbacks, event)
    /\ cbOpen' = IF event = "onDragStart" THEN TRUE
                 ELSE IF event = "onDragEnd" THEN FALSE ELSE cbOpen

----------------------------------------------------------------------------
\* The state after the constructor

Init ==
    /\ objects = [o \in Objects |->
                    IF o = "A"
                    THEN [position |-> Zero3, quaternion |-> QIdentity, scale |-> <<1, 1, 1>>]
                    ELSE [position |-> <<2, 0, 0>>, quaternion |-> QuarterTurnZ,
                          scale |-> <<1, 1, 1>>]]
    /\ camera = [position |-> <<0, 0, 2>>, dir |-> <<0, 0, -1>>, up |-> <<0, 1, 0>>]
    /\ attachedObject = Null
    /\ gizmoGroup = [visible |-> TRUE, position |-> Zero3, quaternion |-> QIdentity,
                     scale |-> 10000, children |-> <<>>]
    /\ inScene = TRUE
    /\ listeners = InitEvents({})
    /\ isDragging = FALSE
    /\ activeAxis = Null
    /\ dragPlane = [normal |-> <<1, 0, 0>>, constant |-> 0]
    /\ startIntersection = Zero3
    /\ startPosition = Zero3
    /\ callbacks = [onDragStart |-> <<>>, onDragEnd |-> <<>>, onChange |-> <<>>]
    /\ error = "none"
    /\ triggered = "none"
    /\ fired = <<>>
    /\ cbOpen = FALSE
    /\ dragObj = Null

----------------------------------------------------------------------------
\* The public operations

Attach(o) ==
    /\ attachedObject' = o
    /\ UNCHANGED <<objects, camera, inScene, listeners, isDragging, activeAxis, dragPlane,
                   startIntersection, startPosition, callbacks, dragObj>>
    /\ Observe("none", "none")
    /\ gizmoGroup' = Update(BuildGizmo([gizmoGroup EXCEPT !.visible = (o # Null)]),
                            o, objects, camera, isDragging)

Detach ==
    /\ attachedObject' = Null
    /\ gizmoGroup' = [gizmoGroup EXCEPT !.visible = FALSE]
    /\ Observe("none", "none")
    /\ UNCHANGED <<objects, camera, inScene, listeners, isDragging, activeAxis, dragPlane,
                   startIntersection, startPosition, callbacks, dragObj>>

On(event, cb) ==
    /\ NumCallbacks < MaxCallbacks
    /\ LET name == CallbackName(event)
       IN  callbacks' = IF name \in DOMAIN callbacks
                        THEN [callbacks EXCEPT ![name] = Append(@, cb)]
                        ELSE callbacks
    /\ Observe("none", "none")
    /\ UNCHANGED <<objects, camera, attachedObject, gizmoGroup, inScene, listeners,
                   isDragging, activeAxis, dragPlane, startIntersection, startPosition,
                   dragObj>>

UpdateOp ==
    /\ gizmoGroup' = Update(gizmoGroup, attachedObject, objects, camera, isDragging)
    /\ Observe("none", "none")
    /\ UNCHANGED <<objects, camera, attachedObject, inScene, listeners, isDragging,
                   activeAxis, dragPlane, startIntersection, startPosition, callbacks,
                   dragObj>>

Dispose ==
    /\ inScene' = FALSE
    /\ listeners' = RemoveEvents(listeners)
    /\ Observe("none", "none")
    /\ UNCHANGED <<objects, camera, attachedObject, gizmoGroup, isDragging, activeAxis,
                   dragPlane, startIntersection, startPosition, callbacks,
                   dragObj>>

----------------------------------------------------------------------------
\* The listeners

\* _startDrag without the assignment to activeAxis
StartDrag_NoAxis(axis, r) ==
    LET position == objects[attachedObject].position
        plane == SetFromNormalAndCoplanarPoint(camera.dir, position)
    IN  /\ isDragging' = TRUE
        /\ activeAxis' = activeAxis
        /\ gizmoGroup' = [gizmoGroup EXCEPT !.children = HighlightAxis(@, axis)]
        /\ dragPlane' = plane
        /\ startPosition' = position
        /\ startIntersection' = IntersectPlane(r, plane).point

\* _startDrag, for the ray r that _handleDown has just set
StartDrag(axis, r) ==
    LET position == objects[attachedObject].position
        plane == SetFromNormalAndCoplanarPoint(camera.dir, position)
    IN  /\ isDragging' = TRUE
        /\ activeAxis' = axis
        /\ gizmoGroup' = [gizmoGroup EXCEPT !.children = HighlightAxis(@, axis)]
        /\ dragPlane' = plane
        /\ startPosition' = position
        /\ startIntersection' = IntersectPlane(r, plane).point

HandleDown(type, x, y) ==
    IF attachedObject = Null \/ ~gizmoGroup.visible
    THEN /\ Observe("none", "none")
         /\ UNCHANGED <<objects, camera, gizmoVars, dragObj>>
    ELSE LET m == MouseOf(x, y)
             r == SetFromCamera(m, camera)
         IN  /\ \E hit \in IntersectObjects(r, gizmoGroup) :
                    IF HitAxis(gizmoGroup, hit) \in Axes
                    THEN /\ StartDrag(HitAxis(gizmoGroup, hit), r)
                         /\ dragObj' = attachedObject
                         /\ Observe("none", "onDragStart")
                    ELSE /\ Observe("none", "none")
                         /\ UNCHANGED <<gizmoGroup, isDragging, activeAxis, dragPlane,
                                        startIntersection, startPosition, dragObj>>
             /\ UNCHANGED <<objects, camera, attachedObject, inScene, listeners, callbacks>>

HandleMove(type, x, y) ==
    IF ~isDragging
    THEN /\ Observe("none", "none")
         /\ UNCHANGED <<objects, camera, gizmoVars, dragObj>>
    ELSE LET m == MouseOf(x, y)
             r == SetFromCamera(m, camera)
             current == IntersectPlane(r, dragPlane)
         IN  /\ IF current.hit /\ attachedObject = Null
                THEN \* _getAxisVector reads this.attachedObject.quaternion of null
                     /\ Observe("TypeError", "none")
                     /\ UNCHANGED objects
                ELSE IF attachedObject = Null
                THEN /\ Observe("none", "onChange")
                     /\ UNCHANGED objects
                ELSE LET position ==
                             HandleMovePosition(objects[attachedObject].position,
                                                startPosition, startIntersection, current,
                                                activeAxis, objects[attachedObject].quaternion)
                         moved == MoveObject(objects[attachedObject], position)
                     IN  /\ InBox(moved.position)
                         /\ objects' = [objects EXCEPT ![attachedObject] = moved]
                         /\ Observe("none", "onChange")
             /\ UNCHANGED <<camera, attachedObject, gizmoGroup, inScene, listeners,
                            isDragging, activeAxis, dragPlane, startIntersection,
                            startPosition, callbacks, dragObj>>

\* _handleUp without the reset of activeAxis
HandleUp_KeepAxis(type) ==
    IF isDragging
    THEN /\ isDragging' = FALSE
         /\ gizmoGroup' = [gizmoGroup EXCEPT !.children = ResetColors(@)]
         /\ Observe("none", "onDragEnd")
         /\ UNCHANGED <<objects, camera, attachedObject, inScene, listeners, dragPlane,
                        startIntersection, startPosition, callbacks, dragObj, activeAxis>>
    ELSE /\ Observe("none", "none")
         /\ UNCHANGED <<objects, camera, gizmoVars, dragObj>>

HandleUp(type) ==
    IF isDragging
    THEN /\ isDragging' = FALSE
         /\ activeAxis' = Null
         /\ gizmoGroup' = [gizmoGroup EXCEPT !.children = ResetColors(@)]
         /\ Observe("none", "onDragEnd")
         /\ UNCHANGED <<objects, camera, attachedObject, inScene, listeners, dragPlane,
                        startIntersection, startPosition, callbacks, dragObj>>
    ELSE /\ Observe("none", "none")
         /\ UNCHANGED <<objects, camera, gizmoVars, dragObj>>

\* an event no listener is registered for reaches no handler
NotHandled ==
    /\ Observe("none", "none")
    /\ UNCHANGED <<objects, camera, gizmoVars, dragObj>>

\* the browser dispatches a pointer event: the down events on the renderer's
\* element, the move and up events on the window
PointerDown(type, x, y) ==
    IF <<"el", type>> \in listeners THEN HandleDown(type, x, y) ELSE NotHandled

PointerMove(type, x, y) ==
    IF <<"window", type>> \in listeners THEN HandleMove(type, x, y) ELSE NotHandled

PointerUp(type) ==
    IF <<"window", type>> \in listeners THEN HandleUp(type) ELSE NotHandled

\* the host application moves the camera
MoveCamera(pose) ==
    /\ pose # camera
    /\ camera' = pose
    /\ Observe("none", "none")
    /\ UNCHANGED <<objects, gizmoVars, dragObj>>

Next ==
    \/ \E o \in Objects \cup {Null} : Attach(o)
    \/ Detach
    \/ \E event \in EventNames, cb \in CallbackIds : On(event, cb)
    \/ UpdateOp
    \/ Dispose
    \/ \E type \in DownTypes, x \in PointerXs, y \in PointerYs : PointerDown(type, x, y)
    \/ \E type \in MoveTypes, x \in PointerXs, y \in PointerYs : PointerMove(type, x, y)
    \/ \E type \in UpTypes : PointerUp(type)
    \/ \E pose \in CameraPoses : MoveCamera(pose)

Spec == Init /\ [][Next]_vars

----------------------------------------------------------------------------
\* Properties

AxisIndex(axis) == IF axis = "x" THEN 1 ELSE IF axis = "y" THEN 2 ELSE 3

\* the pointer events, as steps
PointerDownStep == \E type \in DownTypes, x \in PointerXs, y \in PointerYs : PointerDown(type, x, y)
PointerMoveStep == \E type \in MoveTypes, x \in PointerXs, y \in PointerYs : PointerMove(type, x, y)
PointerUpStep == \E type \in UpTypes : PointerUp(type)
PointerStep == PointerDownStep \/ PointerMoveStep \/ PointerUpStep

\* the positions of the objects
Positions == [o \in Objects |-> objects[o].position]

\* C1, as claimed: while the drag on the handle of axis A lasts, the dragged
\* object's two world coordinates other than A equal those it had at drag start.
C1_WorldAxisOnly ==
    (isDragging /\ dragObj # Null) =>
        \A i \in 1 .. 3 :
            i # AxisIndex(activeAxis) => objects[dragObj].position[i] = startPosition[i]

\* C1, amended: a step that changes a position is a step of a drag, changes the
\* attached object's position only, and puts it on the line through the
\* drag-start position along the handle's axis rotated by the attached object's
\* orientation.
C1_LocalAxisOnly ==
    [][ Positions' # Positions =>
          /\ isDragging /\ attachedObject # Null
          /\ \A o \in Objects \ {attachedObject} : objects'[o] = objects[o]
          /\ Cross(Sub(objects'[attachedObject].position, startPosition),
                   ApplyQuaternion(UnitVector(activeAxis),
                                   objects[attachedObject].quaternion)) = Zero3 ]_vars

\* the rotated object has been dragged away from its drag-start position
C1_Witness ==
    /\ isDragging /\ triggered = "onChange"
    /\ attachedObject = "B" /\ dragObj = "B"
    /\ objects["B"].quaternion = QuarterTurnZ
    /\ objects["B"].position # startPosition

\* C2: a step taken with no object attached raises no error and moves no object.
C2_DetachedNoOp ==
    [][ (attachedObject = Null /\ attachedObject' = Null) =>
          (error' = "none" /\ Positions' = Positions) ]_vars

\* a pointer-move during a drag whose ray misses the drag plane
MoveMissStep ==
    /\ isDragging
    /\ error' = "none" => triggered' = "onChange"
    /\ \E type \in MoveTypes, x \in PointerXs, y \in PointerYs :
        /\ <<"window", type>> \in listeners
        /\ ~IntersectPlane(SetFromCamera(MouseOf(x, y), camera), dragPlane).hit
        /\ PointerMove(type, x, y)

\* C3: a pointer-move during a drag whose ray misses the drag plane raises no
\* error and leaves every object as it was.
C3_MissIsNoOp == [][ MoveMissStep => (error' = "none" /\ objects' = objects) ]_vars

\* a move has just been handled during a drag of a displaced object with the
\* camera turned so that no pointer ray meets the drag plane
C3_Witness ==
    /\ isDragging /\ triggered = "onChange" /\ error = "none"
    /\ attachedObject # Null
    /\ objects[attachedObject].position # startPosition
    /\ \A x \in PointerXs, y \in PointerYs :
           ~IntersectPlane(SetFromCamera(MouseOf(x, y), camera), dragPlane).hit

\* C4: no step changes the orientation or the scale of an object.
C4_TranslationOnly ==
    [][ \A o \in Objects : /\ objects'[o].quaternion = objects[o].quaternion
                           /\ objects'[o].scale = objects[o].scale ]_vars

\* a drag has moved the rotated object, which keeps its orientation and scale
C4_Witness ==
    /\ triggered = "onChange"
    /\ objects["B"].position # <<2, 0, 0>>
    /\ objects["B"].quaternion = QuarterTurnZ
    /\ objects["B"].scale = <<1, 1, 1>>

\* the handles of an axis among the children, and the children that are no handle
HandlesOf(children, axis) ==
    {i \in 1 .. Len(children) : children[i].type = "handle" /\ children[i].axis = axis}
OtherChildren(children) == {i \in 1 .. Len(children) : children[i].type # "handle"}

\* one handle for each axis and the centre sphere, and nothing else
ThreeHandles(children) ==
    /\ Len(children) = 4
    /\ \A axis \in Axes : Cardinality(HandlesOf(children, axis)) = 1
    /\ Cardinality(OtherChildren(children)) = 1

AttachStep == \E o \in Objects \cup {Null} : Attach(o)

\* C5: every attach leaves the group with exactly one handle for each axis and
\* the centre sphere, and no later step changes that.
C5_ThreeHandles ==
    [][ /\ AttachStep => ThreeHandles(gizmoGroup'.children)
        /\ (gizmoGroup'.children # gizmoGroup.children /\ ThreeHandles(gizmoGroup.children))
              => ThreeHandles(gizmoGroup'.children) ]_vars

\* the group of a gizmo attached for the second time at least: the drag on a
\* handle of the first object is still on and the handles are those of a new build
C5_Witness ==
    /\ ThreeHandles(gizmoGroup.children)
    /\ attachedObject # Null /\ dragObj # Null /\ attachedObject # dragObj
    /\ \A i \in 1 .. Len(gizmoGroup.children) :
           gizmoGroup.children[i].type = "handle" =>
               gizmoGroup.children[i].color = gizmoGroup.children[i].baseColor

\* C6: a pointer-move of a drag whose ray meets the drag plane puts the attached
\* object at the drag-start position plus the projection, onto the active axis
\* as the object's orientation turns it, of the plane intersection minus the
\* drag-start intersection, whatever the object's position was before; where the
\* two intersections agree that is the drag-start position.
C6_Projection ==
    [][ \A x \in PointerXs, y \in PointerYs :
          LET current == IntersectPlane(SetFromCamera(MouseOf(x, y), camera), dragPlane)
              a == ApplyQuaternion(UnitVector(activeAxis), objects[attachedObject].quaternion)
              offset == MultiplyScalar(a, Dot(Sub(current.point, startIntersection), a))
          IN  ( /\ isDragging /\ triggered' = "onChange"
                /\ attachedObject # Null /\ current.hit
                /\ \E type \in MoveTypes :
                       <<"window", type>> \in listeners /\ PointerMove(type, x, y) )
              => /\ objects'[attachedObject].position = Add(startPosition, offset)
                 /\ current.point = startIntersection
                        => objects'[attachedObject].position = startPosition ]_vars

\* a move has put the object the drag started on away from its drag-start position
C6_Witness ==
    /\ isDragging /\ triggered = "onChange"
    /\ attachedObject # Null /\ dragObj = attachedObject
    /\ objects[attachedObject].position # startPosition
    /\ Cross(Sub(objects[attachedObject].position, startPosition),
             ApplyQuaternion(UnitVector(activeAxis), objects[attachedObject].quaternion)) = Zero3

\* C7: onDragStart is triggered only when no drag is open, onChange and
\* onDragEnd only when one is.
C7_Protocol ==
    [][ /\ triggered' = "onDragStart" => ~cbOpen
        /\ triggered' \in {"onChange", "onDragEnd"} => cbOpen ]_vars

\* C8: a step changes the position of no object but the one that was attached
\* when the drag started.
C8_OnlyDraggedObject ==
    [][ \A o \in Objects : objects'[o].position # objects[o].position => o = dragObj ]_vars

\* C9, as claimed: in every state of a drag, a pointer-up ends the drag.
C9_NextUpEnds ==
    isDragging => \A type \in UpTypes : ~ENABLED (PointerUp(type) /\ isDragging')

\* C9, amended: while the gizmo has not been disposed of, a pointer-up during a
\* drag ends it, resets activeAxis and invokes every onDragEnd callback once;
\* a pointer-up outside a drag changes nothing and invokes nothing.
C9_UpEndsDrag ==
    [][ \A type \in UpTypes :
          (inScene /\ PointerUp(type))
          => IF isDragging
             THEN /\ ~isDragging' /\ activeAxis' = Null
                  /\ triggered' = "onDragEnd"
                  /\ fired' = [i \in 1 .. Len(callbacks.onDragEnd) |-> <<"onDragEnd", i>>]
             ELSE /\ UNCHANGED <<objects, gizmoVars>>
                  /\ triggered' = "none" /\ fired' = <<>> ]_vars

\* a pointer-up has ended a drag and invoked the registered onDragEnd callback
C9_Witness ==
    /\ inScene /\ ~isDragging /\ activeAxis = Null
    /\ triggered = "onDragEnd"
    /\ Len(callbacks.onDragEnd) >= 1
    /\ fired = [i \in 1 .. Len(callbacks.onDragEnd) |-> <<"onDragEnd", i>>]

\* C10: once the gizmo is disposed of, a pointer event changes no field of the
\* gizmo, moves no object and invokes no callback.
C10_DisposedIgnoresPointer ==
    [][ (~inScene /\ PointerStep)
          => (UNCHANGED <<objects, gizmoVars>> /\ triggered' = "none" /\ fired' = <<>>) ]_vars

\* the gizmo was disposed of in the middle of a drag, with a callback registered
C10_Witness ==
    /\ ~inScene /\ listeners = {}
    /\ isDragging /\ attachedObject # Null
    /\ Len(callbacks.onDragEnd) >= 1

\* the handles among the children
Handles(children) == {i \in 1 .. Len(children) : children[i].type = "handle"}

\* C11: during a drag the handle of activeAxis, and no other, shows the active
\* colour and the other handles show their base colours; outside a drag every
\* handle shows its base colour.
C11_ColoursAgree ==
    /\ isDragging => \E i \in Handles(gizmoGroup.children) :
                         gizmoGroup.children[i].axis = activeAxis
    /\ \A i \in Handles(gizmoGroup.children) :
           gizmoGroup.children[i].color =
               IF isDragging /\ gizmoGroup.children[i].axis = activeAxis
               THEN ColorActive
               ELSE gizmoGroup.children[i].baseColor

\* the flip of each child
Flips(g) == [i \in 1 .. Len(g.children) |-> g.children[i].scaleY]

\* the flip of the handle of an axis of the group g under the camera cam: -1
\* when ten times the camera's coordinate along the axis, in the frame of g's
\* position and orientation, is below -2
FlipOf(g, cam, axis) ==
    LET c == ApplyQuaternion(Sub(cam.position, g.position), Invert(g.quaternion))
    IN  IF 10 * c[AxisIndex(axis)] < -2 THEN -1 ELSE 1

\* C12: update() during a drag, or with no object attached or the gizmo hidden,
\* leaves every flip as it was; outside a drag, with an object attached and the
\* gizmo visible, it gives every handle the flip the camera's coordinate along
\* its axis asks for.  The update() at the end of attach() does the same to the
\* handles attach() has just built, which are unflipped.
C12_UpdateFlips ==
    [][ /\ UpdateOp =>
             IF isDragging \/ attachedObject = Null \/ ~gizmoGroup.visible
             THEN Flips(gizmoGroup') = Flips(gizmoGroup)
             ELSE \A i \in Handles(gizmoGroup'.children) :
                      gizmoGroup'.children[i].scaleY =
                          FlipOf(gizmoGroup', camera, gizmoGroup'.children[i].axis)
        /\ AttachStep =>
             \A i \in Handles(gizmoGroup'.children) :
                 gizmoGroup'.children[i].scaleY =
                     IF isDragging \/ attachedObject' = Null THEN 1
                     ELSE FlipOf(gizmoGroup', camera, gizmoGroup'.children[i].axis) ]_vars

\* an update() outside a drag has flipped a handle; in the drag that followed
\* the object was moved and an update() has put the gizmo on it and has kept a
\* flip that the camera's coordinate no longer asks for
C12_Witness ==
    /\ isDragging /\ attachedObject # Null /\ gizmoGroup.visible
    /\ objects[attachedObject].position # startPosition
    /\ gizmoGroup.position = objects[attachedObject].position
    /\ \E i \in Handles(gizmoGroup.children) : gizmoGroup.children[i].scaleY = -1
    /\ \E i \in Handles(gizmoGroup.children) :
           gizmoGroup.children[i].scaleY #
               FlipOf(gizmoGroup, camera, gizmoGroup.children[i].axis)

\* a pointer-down that reaches _handleDown and whose ray hits a handle
HandleHitStep ==
    \E type \in DownTypes, x \in PointerXs, y \in PointerYs :
        /\ <<"el", type>> \in listeners
        /\ \E hit \in IntersectObjects(SetFromCamera(MouseOf(x, y), camera), gizmoGroup) :
               /\ hit # 0
               /\ gizmoGroup.children[hit].type = "handle"
               /\ activeAxis' = gizmoGroup.children[hit].axis
        /\ PointerDown(type, x, y)

\* C13: isDragging is true exactly when activeAxis is not null, and an
\* activeAxis that is not null is "x", "y" or "z"; a step that enters a drag is
\* a pointer-down whose ray hits a handle, taken with an object attached and
\* the gizmo visible.
C13_DragStateConsistent ==
    /\ [](/\ isDragging <=> activeAxis # Null
          /\ activeAxis # Null => activeAxis \in Axes)
    /\ [][ (~isDragging /\ isDragging')
             => (attachedObject # Null /\ gizmoGroup.visible /\ HandleHitStep) ]_vars

\* a pointer-down on a handle has just entered a drag
C13_Witness ==
    /\ isDragging /\ activeAxis \in Axes
    /\ triggered = "onDragStart" /\ inScene
    /\ attachedObject # Null /\ gizmoGroup.visible
    /\ \E i \in Handles(gizmoGroup.children) :
           /\ gizmoGroup.children[i].axis = activeAxis
           /\ gizmoGroup.children[i].color = ColorActive

====
